---- MODULE Spec2Model ----
(***************************************************************************)
(* A model of run_devpi.py, the drone plugin that publishes a Python       *)
(* package to a devpi server by shelling out to the devpi client.          *)
(*                                                                         *)
(* A Python str is a sequence of one-character strings, so that urlsplit,  *)
(* os.path.join and glob are computed character by character.  A JSON      *)
(* value of the plugin input is a record [t, s, l]: t is "null", "str" or  *)
(* "list"; s is the text of a str; l is the items of a list.  vargs is a   *)
(* function whose DOMAIN is the set of keys present in the input, as a     *)
(* Python dict.                                                            *)
(***************************************************************************)
EXTENDS Integers, Sequences, FiniteSets, TLC

VARIABLES
    vargs,      \* payload['vargs']
    listing,    \* the file names in the workspace directory, in the order glob lists them
    pc,         \* the statement of main that runs next: an index into MainSteps
    cmds,       \* the external commands issued so far, each with its exit code
    printed,    \* the lines printed by check_vargs
    returned,   \* what each completed call of main's steps returned to main
    status,     \* "running", or "exited" once the process has ended
    exitCode,   \* the process exit code once status = "exited"
    exitStep    \* the step of main whose sys.exit ended the process, 0 if none

vars == <<vargs, listing, pc, cmds, printed, returned, status, exitCode, exitStep>>

(***************************************************************************)
(* Bounds of the model.                                                    *)
(***************************************************************************)
MaxServerLen == 5
MaxRc == 2
MaxPatterns == 2
MaxFiles == 2

----------------------------------------------------------------------------
(***************************************************************************)
(* Strings.                                                                *)
(***************************************************************************)
RECURSIVE StringsUpTo(_, _)
StringsUpTo(alphabet, n) ==
    IF n = 0 THEN {<<>>}
    ELSE LET shorter == StringsUpTo(alphabet, n - 1)
         IN  shorter \cup {Append(s, c) : s \in shorter, c \in alphabet}

\* str.find(c): the 0-based index of the first c in s, -1 if there is none
Find(s, c) ==
    IF \E i \in 1..Len(s) : s[i] = c
    THEN (CHOOSE i \in 1..Len(s) : s[i] = c /\ \A j \in 1..(i - 1) : s[j] # c) - 1
    ELSE -1

\* the Python slice s[from:to], 0-based, to exclusive
Slice(s, from, to) ==
    IF to <= from THEN <<>> ELSE SubSeq(s, from + 1, to)

StartsWith(s, prefix) ==
    /\ Len(s) >= Len(prefix)
    /\ SubSeq(s, 1, Len(prefix)) = prefix

RECURSIVE Flatten(_)
Flatten(ss) ==
    IF ss = <<>> THEN <<>> ELSE Head(ss) \o Flatten(Tail(ss))

(***************************************************************************)
(* JSON values of the plugin input.                                        *)
(***************************************************************************)
JNull == [t |-> "null", s |-> <<>>, l |-> <<>>]
JStr(text) == [t |-> "str", s |-> text, l |-> <<>>]
JList(items) == [t |-> "list", s |-> <<>>, l |-> items]
\* marks a key left out of the input when Init builds vargs; never a value of vargs
Absent == [t |-> "absent", s |-> <<>>, l |-> <<>>]

\* Python truthiness: None, '' and [] are falsy
Truthy(v) ==
    \/ v.t = "str" /\ v.s # <<>>
    \/ v.t = "list" /\ v.l # <<>>

\* dict.get(key, default)
Get(d, key, default) ==
    IF key \in DOMAIN d THEN d[key] ELSE default

(***************************************************************************)
(* urllib.parse.urlsplit, as far as check_vargs reads its result: the      *)
(* scheme and the network location.                                        *)
(***************************************************************************)
\* the letters of the modelled servers, and the scheme characters among
\* the characters of the modelled servers (letters, digits and "+-.")
Letters == {"h"}
SchemeChars == Letters \cup {"+", "-", "."}

\* a scheme is split off when the text before the first ':' is not empty,
\* starts with a letter and holds scheme characters only
HasScheme(url) ==
    LET i == Find(url, ":")
    IN  /\ i > 0
        /\ url[1] \in Letters
        /\ \A k \in 1..i : url[k] \in SchemeChars

UrlScheme(url) ==
    IF HasScheme(url) THEN Slice(url, 0, Find(url, ":")) ELSE <<>>

UrlRest(url) ==
    IF HasScheme(url) THEN Slice(url, Find(url, ":") + 1, Len(url)) ELSE url

\* _splitnetloc(url, 2): the netloc runs from after '//' to the first of '/?#'
UrlNetloc(url) ==
    LET rest == UrlRest(url)
        stops == {k \in 3..Len(rest) : rest[k] \in {"/", "?", "#"}}
        delim == IF stops = {} THEN Len(rest)
                 ELSE (CHOOSE k \in stops : \A m \in stops : k <= m) - 1
    IN  IF StartsWith(rest, <<"/", "/">>) THEN Slice(rest, 2, delim) ELSE <<>>

\* urlsplit(vargs.get('server', '')): None is coerced to empty components
urlsplit(v) ==
    IF v.t = "str" THEN [scheme |-> UrlScheme(v.s), netloc |-> UrlNetloc(v.s)]
    ELSE [scheme |-> <<>>, netloc |-> <<>>]

(***************************************************************************)
(* The words of the devpi command lines.                                   *)
(***************************************************************************)
W_devpi == <<"d", "e", "v", "p", "i">>
W_use == <<"u", "s", "e">>
W_login == <<"l", "o", "g", "i", "n">>
W_index == <<"i", "n", "d", "e", "x">>
W_upload == <<"u", "p", "l", "o", "a", "d">>
W_clientdir == <<"-", "-", "c", "l", "i", "e", "n", "t", "d", "i", "r">>
W_password == <<"-", "-", "p", "a", "s", "s", "w", "o", "r", "d">>
W_c == <<"-", "c">>
W_from_dir == <<"-", "-", "f", "r", "o", "m", "-", "d", "i", "r">>
W_no_vcs == <<"-", "-", "n", "o", "-", "v", "c", "s">>
DEFAULT_CLIENTDIR ==
    <<"/", "t", "m", "p", "/", "d", "e", "v", "p", "i", "-", "c", "l", "i", "e", "n", "t", "d", "i", "r">>

\* cwd of a command started without cwd=: the plugin's own working directory
InheritedCwd == <<>>

(***************************************************************************)
(* The undecorated command functions: the command line each one runs.      *)
(***************************************************************************)
select_server(server, clientdir) ==
    [argv |-> <<W_devpi, W_use, W_clientdir, clientdir, server>>,
     cwd |-> InheritedCwd]

login(username, password, clientdir) ==
    [argv |-> <<W_devpi, W_login, W_clientdir, clientdir,
                username, W_password, password>>,
     cwd |-> InheritedCwd]

select_index(index, clientdir) ==
    [argv |-> <<W_devpi, W_use, W_clientdir, clientdir, index>>,
     cwd |-> InheritedCwd]

create_index(index, clientdir) ==
    [argv |-> <<W_devpi, W_index, W_clientdir, clientdir, W_c, index>>,
     cwd |-> InheritedCwd]

(***************************************************************************)
(* The file system, as expand_files sees it: one directory, the workspace, *)
(* holding the regular files of `listing`.                                 *)
(***************************************************************************)
WorkspacePath == <<"w">>

\* os.path.join(a, b)
path_join(a, b) ==
    IF b # <<>> /\ b[1] = "/" THEN b
    ELSE IF a = <<>> \/ a[Len(a)] = "/" THEN a \o b
    ELSE a \o <<"/">> \o b

\* str.rfind('/') + 1: the length of the part up to and including the last '/'
LastSlash(p) ==
    IF \E i \in 1..Len(p) : p[i] = "/"
    THEN CHOOSE i \in 1..Len(p) : p[i] = "/" /\ \A j \in (i + 1)..Len(p) : p[j] # "/"
    ELSE 0

RECURSIVE RStripSlash(_)
RStripSlash(p) ==
    IF p # <<>> /\ p[Len(p)] = "/" THEN RStripSlash(SubSeq(p, 1, Len(p) - 1)) ELSE p

\* os.path.split(p)[0]: trailing slashes are stripped unless head is all slashes
DirName(p) ==
    LET head == SubSeq(p, 1, LastSlash(p))
    IN  IF \A i \in 1..Len(head) : head[i] = "/" THEN head ELSE RStripSlash(head)

\* os.path.split(p)[1]
BaseName(p) == SubSeq(p, LastSlash(p) + 1, Len(p))

has_magic(s) == \E i \in 1..Len(s) : s[i] \in {"*", "?", "["}

ishidden(s) == s # <<>> /\ s[1] = "."

\* fnmatch.fnmatch(name, pat) for patterns of literals, '*' and '?'
RECURSIVE fnmatch(_, _)
fnmatch(name, pat) ==
    IF pat = <<>> THEN name = <<>>
    ELSE IF Head(pat) = "*"
         THEN fnmatch(name, Tail(pat)) \/ (name # <<>> /\ fnmatch(Tail(name), pat))
    ELSE IF Head(pat) = "?"
         THEN name # <<>> /\ fnmatch(Tail(name), Tail(pat))
    ELSE name # <<>> /\ Head(name) = Head(pat) /\ fnmatch(Tail(name), Tail(pat))

\* os.listdir(dirname) as glob reads it: nothing for what is no directory
listdir(dirname, dir) == IF dirname = WorkspacePath THEN dir ELSE <<>>

SeqToSet(s) == {s[i] : i \in 1..Len(s)}

\* glob._glob1: the names of dirname that match, hidden ones only for a hidden pattern
glob1(dirname, pattern, dir) ==
    LET keep(name) == /\ ishidden(pattern) \/ ~ishidden(name)
                      /\ fnmatch(name, pattern)
    IN  SelectSeq(listdir(dirname, dir), keep)

\* glob._glob0: the name itself when it exists; the directory for an empty name
glob0(dirname, basename, dir) ==
    IF basename = <<>>
    THEN IF dirname = WorkspacePath THEN <<basename>> ELSE <<>>
    ELSE IF basename \in SeqToSet(listdir(dirname, dir)) THEN <<basename>> ELSE <<>>

\* glob.glob(pathname) over the modelled workspace
glob(pathname, dir) ==
    LET dirname == DirName(pathname)
        basename == BaseName(pathname)
        names == IF has_magic(basename) THEN glob1(dirname, basename, dir)
                 ELSE glob0(dirname, basename, dir)
    IN  IF ~has_magic(pathname)
        THEN IF glob0(dirname, basename, dir) # <<>> THEN <<pathname>> ELSE <<>>
        ELSE [i \in 1..Len(names) |-> path_join(dirname, names[i])]

(***************************************************************************)
(* expand_files(path, patterns): the for loops, pattern by pattern.        *)
(***************************************************************************)
RECURSIVE ExpandLoop(_, _, _, _, _)
ExpandLoop(path, patterns, k, files, dir) ==
    IF k > Len(patterns) THEN files
    ELSE ExpandLoop(path, patterns, k + 1,
                    files \o glob(path_join(path, patterns[k]), dir), dir)

\* expand_files without the isinstance test: a str is iterated character by character
expand_files_NoCoerce(path, patterns, dir) ==
    LET plist == IF patterns.t = "str"
                 THEN [i \in 1..Len(patterns.s) |-> <<patterns.s[i]>>]
                 ELSE patterns.l
    IN  ExpandLoop(path, plist, 1, <<>>, dir)

expand_files(path, patterns, dir) ==
    LET plist == IF patterns.t = "str" THEN <<patterns.s>> ELSE patterns.l
    IN  ExpandLoop(path, plist, 1, <<>>, dir)

\* upload_package handing over the patterns themselves when none of them matches
upload_package_RawWhenEmpty(path, clientdir, files, dir) ==
    LET cmd == <<W_devpi, W_upload, W_clientdir, clientdir, W_from_dir, W_no_vcs>>
        expanded == expand_files(path, files, dir)
        raw == IF files.t = "str" THEN <<files.s>> ELSE files.l
    IN  [argv |-> IF ~Truthy(files) THEN cmd
                  ELSE IF expanded = <<>> THEN cmd \o raw
                  ELSE cmd \o expanded,
         cwd |-> path]

\* the undecorated upload_package: its command line and working directory
upload_package(path, clientdir, files, dir) ==
    LET cmd == <<W_devpi, W_upload, W_clientdir, clientdir, W_from_dir, W_no_vcs>>
    IN  [argv |-> IF Truthy(files) THEN cmd \o expand_files(path, files, dir) ELSE cmd,
         cwd |-> path]

(***************************************************************************)
(* check_vargs: the message it prints before sys.exit(1), or none.         *)
(***************************************************************************)
MsgServer == "You must specify the full, absolute URI to your devpi server (including protocol)."
MsgIndex == "You must specify an index on your devpi server to upload to."
MsgUsername == "You must specify a username to upload packages as."
MsgPassword == "You must specify a password."

\* check_vargs without its last check
check_vargs_NoPasswordCheck(v) ==
    LET parsed == urlsplit(Get(v, "server", JStr(<<>>)))
    IN  IF ~(parsed.scheme # <<>> /\ parsed.netloc # <<>>)
        THEN [exits |-> TRUE, msg |-> MsgServer]
        ELSE IF ~Truthy(Get(v, "index", JNull))
        THEN [exits |-> TRUE, msg |-> MsgIndex]
        ELSE IF ~Truthy(Get(v, "username", JNull))
        THEN [exits |-> TRUE, msg |-> MsgUsername]
        ELSE [exits |-> FALSE, msg |-> ""]

\* check_vargs testing the password as it tests the username: `if not password`
check_vargs_FalsyPassword(v) ==
    LET parsed == urlsplit(Get(v, "server", JStr(<<>>)))
    IN  IF ~(parsed.scheme # <<>> /\ parsed.netloc # <<>>)
        THEN [exits |-> TRUE, msg |-> MsgServer]
        ELSE IF ~Truthy(Get(v, "index", JNull))
        THEN [exits |-> TRUE, msg |-> MsgIndex]
        ELSE IF ~Truthy(Get(v, "username", JNull))
        THEN [exits |-> TRUE, msg |-> MsgUsername]
        ELSE IF ~Truthy(Get(v, "password", JNull))
        THEN [exits |-> TRUE, msg |-> MsgPassword]
        ELSE [exits |-> FALSE, msg |-> ""]

\* check_vargs with the username checked before the index
check_vargs_UsernameFirst(v) ==
    LET parsed == urlsplit(Get(v, "server", JStr(<<>>)))
    IN  IF ~(parsed.scheme # <<>> /\ parsed.netloc # <<>>)
        THEN [exits |-> TRUE, msg |-> MsgServer]
        ELSE IF ~Truthy(Get(v, "username", JNull))
        THEN [exits |-> TRUE, msg |-> MsgUsername]
        ELSE IF ~Truthy(Get(v, "index", JNull))
        THEN [exits |-> TRUE, msg |-> MsgIndex]
        ELSE IF Get(v, "password", JNull).t = "null"
        THEN [exits |-> TRUE, msg |-> MsgPassword]
        ELSE [exits |-> FALSE, msg |-> ""]

check_vargs(v) ==
    LET parsed == urlsplit(Get(v, "server", JStr(<<>>)))
    IN  IF ~(parsed.scheme # <<>> /\ parsed.netloc # <<>>)
        THEN [exits |-> TRUE, msg |-> MsgServer]
        ELSE IF ~Truthy(Get(v, "index", JNull))
        THEN [exits |-> TRUE, msg |-> MsgIndex]
        ELSE IF ~Truthy(Get(v, "username", JNull))
        THEN [exits |-> TRUE, msg |-> MsgUsername]
        ELSE IF Get(v, "password", JNull).t = "null"
        THEN [exits |-> TRUE, msg |-> MsgPassword]
        ELSE [exits |-> FALSE, msg |-> ""]

(***************************************************************************)
(* die_on_error and the functions it decorates.                            *)
(***************************************************************************)
\* upload_package left undecorated
Decorated_WithoutUpload ==
    {"select_server", "login", "select_index", "create_index"}

Decorated ==
    {"select_server", "login", "select_index", "create_index", "upload_package"}

\* a wrapper that hands the result back and never exits
die_on_error_NoExit(returncode) ==
    [exits |-> FALSE, value |-> "None"]

\* a wrapper that exits on every non-zero returncode
die_on_error_NonZero(returncode) ==
    IF returncode # 0
    THEN [exits |-> TRUE, value |-> "-"]
    ELSE [exits |-> FALSE, value |-> "None"]

\* wrapped(*args): exits on returncode 1, and otherwise falls off its end,
\* so that the caller gets None and never the result of f
die_on_error(returncode) ==
    IF returncode = 1
    THEN [exits |-> TRUE, value |-> "-"]
    ELSE [exits |-> FALSE, value |-> "None"]

\* a call of f from main, f's command having ended with returncode
Call(f, returncode) ==
    IF f \in Decorated THEN die_on_error(returncode)
    ELSE [exits |-> FALSE, value |-> "process"]

(***************************************************************************)
(* main: its statements in order.                                          *)
(***************************************************************************)
\* main selecting the index before it logs in
MainSteps_IndexBeforeLogin ==
    <<"check_vargs", "select_server", "select_index", "login", "upload_package">>

MainSteps ==
    <<"check_vargs", "select_server", "login", "select_index", "upload_package">>

ReturnCodes == 0..MaxRc

AtStep(name) ==
    /\ status = "running"
    /\ pc \in 1..Len(MainSteps)
    /\ MainSteps[pc] = name

\* the statement at pc returned: main goes on, and the process ends with
\* code 0 when main has no statement left
Advance ==
    /\ pc' = pc + 1
    /\ exitStep' = exitStep
    /\ status' = IF pc + 1 > Len(MainSteps) THEN "exited" ELSE status
    /\ exitCode' = IF pc + 1 > Len(MainSteps) THEN 0 ELSE exitCode

\* sys.exit(1) inside the statement at pc
Die ==
    /\ pc' = pc
    /\ exitStep' = pc
    /\ status' = "exited"
    /\ exitCode' = 1

\* the statement at pc runs cmd, which ends with returncode
Run(cmd, returncode) ==
    LET r == Call(MainSteps[pc], returncode)
    IN  /\ cmds' = Append(cmds, [argv |-> cmd.argv, cwd |-> cmd.cwd, rc |-> returncode])
        /\ IF r.exits
           THEN Die /\ returned' = returned
           ELSE Advance /\ returned' = Append(returned, r.value)
        /\ UNCHANGED <<vargs, listing, printed>>

CheckVargs ==
    /\ AtStep("check_vargs")
    /\ LET r == check_vargs(vargs)
       IN  IF r.exits
           THEN Die /\ printed' = Append(printed, r.msg) /\ returned' = returned
           ELSE Advance /\ printed' = printed /\ returned' = Append(returned, "None")
    /\ UNCHANGED <<vargs, listing, cmds>>

SelectServer ==
    /\ AtStep("select_server")
    /\ \E returncode \in ReturnCodes :
          Run(select_server(vargs["server"].s, DEFAULT_CLIENTDIR), returncode)

Login ==
    /\ AtStep("login")
    /\ \E returncode \in ReturnCodes :
          Run(login(vargs["username"].s, vargs["password"].s, DEFAULT_CLIENTDIR),
              returncode)

SelectIndex ==
    /\ AtStep("select_index")
    /\ \E returncode \in ReturnCodes :
          Run(select_index(vargs["index"].s, DEFAULT_CLIENTDIR), returncode)

UploadPackage ==
    /\ AtStep("upload_package")
    /\ \E returncode \in ReturnCodes :
          Run(upload_package(WorkspacePath, DEFAULT_CLIENTDIR,
                             Get(vargs, "files", JNull), listing),
              returncode)

Next ==
    \/ CheckVargs
    \/ SelectServer
    \/ Login
    \/ SelectIndex
    \/ UploadPackage

(***************************************************************************)
(* The inputs.                                                             *)
(***************************************************************************)
Keys == {"server", "index", "username", "password", "files"}

\* the dict of the keys that are present
MkVargs(server, index, username, password, files) ==
    LET all == [server |-> server, index |-> index, username |-> username,
                password |-> password, files |-> files]
    IN  [k \in {key \in Keys : all[key].t # "absent"} |-> all[k]]

ServerAlphabet == {"h", ":", "/"}

\* servers with a query, a fragment, a port, a longer scheme, a path
ServerSamples ==
    { <<"h", ":", "/", "/", "?">>,
      <<"h", ":", "/", "/", "h", "?", "h">>,
      <<"h", ":", "/", "/", "#", "h">>,
      <<"h", ":", "/", "/", "h", ":", "h", "/", "h">>,
      <<"h", "+", "h", ":", "/", "/", "h", ".", "h">>,
      <<"h", "?", ":", "/", "/", "h">>,
      <<"?", "h", ":", "/", "/", "h">> }

ServerInputs ==
    {Absent, JNull}
        \cup {JStr(s) : s \in StringsUpTo(ServerAlphabet, MaxServerLen)}
        \cup {JStr(s) : s \in ServerSamples}
IndexInputs == {Absent, JStr(<<>>), JStr(<<"i">>)}
UsernameInputs == {Absent, JStr(<<>>), JStr(<<"u">>)}
PasswordInputs == {Absent, JNull, JStr(<<>>), JStr(<<"p">>)}

FileNames == {<<"a">>, <<"b">>, <<"a", "b">>, <<".", "a">>}
FilePatterns == {<<"*">>, <<"a", "*">>, <<"b">>, <<"?", "b">>}

RECURSIVE SeqsUpTo(_, _)
SeqsUpTo(S, n) ==
    IF n = 0 THEN {<<>>}
    ELSE LET shorter == SeqsUpTo(S, n - 1)
         IN  shorter \cup {Append(s, x) : s \in shorter, x \in S}

\* a directory lists each of its files once
Listings ==
    {d \in SeqsUpTo(FileNames, MaxFiles) :
        \A i, j \in 1..Len(d) : i # j => d[i] # d[j]}

FilesInputs ==
    {Absent, JNull, JStr(<<>>)}
        \cup {JStr(p) : p \in FilePatterns}
        \cup {JList(l) : l \in SeqsUpTo(FilePatterns, MaxPatterns)}

InitState ==
    /\ pc = 1
    /\ cmds = <<>>
    /\ printed = <<>>
    /\ returned = <<>>
    /\ status = "running"
    /\ exitCode = 0
    /\ exitStep = 0

\* every shape of the required fields, with and without a files pattern
Init ==
    /\ \E server \in ServerInputs, index \in IndexInputs,
          username \in UsernameInputs, password \in PasswordInputs,
          files \in {Absent, JStr(<<"*">>)} :
          vargs = MkVargs(server, index, username, password, files)
    /\ listing = <<<<"a">>>>
    /\ InitState

Spec == Init /\ [][Next]_vars

\* valid required fields, with every shape of files and of the workspace
InitFiles ==
    /\ \E files \in FilesInputs :
          vargs = MkVargs(JStr(<<"h", ":", "/", "/", "h">>), JStr(<<"i">>),
                          JStr(<<"u">>), JStr(<<"p">>), files)
    /\ listing \in Listings
    /\ InitState

SpecFiles == InitFiles /\ [][Next]_vars

----------------------------------------------------------------------------
(***************************************************************************)
(* What the claims speak of.                                               *)
(***************************************************************************)
Present(key) == key \in DOMAIN vargs

NonEmptyStr(key) == Present(key) /\ vargs[key].t = "str" /\ vargs[key].s # <<>>

\* server has a non-empty scheme and a non-empty network location
ServerWellFormed ==
    /\ Present("server")
    /\ vargs["server"].t = "str"
    /\ UrlScheme(vargs["server"].s) # <<>>
    /\ UrlNetloc(vargs["server"].s) # <<>>

PasswordGiven == Present("password") /\ vargs["password"].t # "null"

FieldOrder == <<"server", "index", "username", "password">>

FieldOK(key) ==
    CASE key = "server" -> ServerWellFormed
      [] key = "index" -> NonEmptyStr("index")
      [] key = "username" -> NonEmptyStr("username")
      [] key = "password" -> PasswordGiven

FieldMsg(key) ==
    CASE key = "server" -> MsgServer
      [] key = "index" -> MsgIndex
      [] key = "username" -> MsgUsername
      [] key = "password" -> MsgPassword

ValidInput == \A i \in 1..Len(FieldOrder) : FieldOK(FieldOrder[i])

\* check_vargs has been called and has returned or exited
Validated == printed # <<>> \/ returned # <<>>

\* check_vargs ended the process
Rejected == status = "exited" /\ exitStep = 1

LastCmd == cmds[Len(cmds)]

IsUse(c) == c.argv[2] = W_use
IsLogin(c) == c.argv[2] = W_login
IsUpload(c) == c.argv[2] = W_upload
IsChecked(c) == IsUse(c) \/ IsLogin(c)

UploadIssued == cmds # <<>> /\ IsUpload(LastCmd)

AllZero == \A i \in 1..Len(cmds) : cmds[i].rc = 0

(***************************************************************************)
(* C1: when server, index, username or password is missing, or server has  *)
(* no scheme or no host, the run issues no external command at all, and    *)
(* once check_vargs has run the process has exited with code 1.            *)
(***************************************************************************)
C1_FieldMissing ==
    \/ ~Present("server")
    \/ ~Present("index")
    \/ ~Present("username")
    \/ ~Present("password")
    \/ ~ServerWellFormed

C1_InvalidInputExitsBeforeAnyCommand ==
    C1_FieldMissing =>
        /\ cmds = <<>>
        /\ status = "running" => pc = 1 /\ ~Validated /\ ENABLED CheckVargs
        /\ status = "exited" => exitCode = 1 /\ exitStep = 1
        /\ ~ENABLED (SelectServer \/ Login \/ SelectIndex \/ UploadPackage)

\* only the password is missing, and the run has ended
C1_Witness ==
    /\ ServerWellFormed /\ NonEmptyStr("index") /\ NonEmptyStr("username")
    /\ ~Present("password")
    /\ status = "exited" /\ exitCode = 1 /\ cmds = <<>>

(***************************************************************************)
(* C2: with every command exiting 0, the commands issued are, in order and *)
(* once each, use(server), login(username, password), use(index) and       *)
(* upload; no `index -c` command is issued; and a run that has ended has   *)
(* issued all four and has not exited with code 1.                         *)
(***************************************************************************)
C2_Expected(i, argv) ==
    CASE i = 1 -> argv = <<W_devpi, W_use, W_clientdir, DEFAULT_CLIENTDIR,
                           vargs["server"].s>>
      [] i = 2 -> argv = <<W_devpi, W_login, W_clientdir, DEFAULT_CLIENTDIR,
                           vargs["username"].s, W_password, vargs["password"].s>>
      [] i = 3 -> argv = <<W_devpi, W_use, W_clientdir, DEFAULT_CLIENTDIR,
                           vargs["index"].s>>
      [] i = 4 -> SubSeq(argv, 1, 6) = <<W_devpi, W_upload, W_clientdir,
                                         DEFAULT_CLIENTDIR, W_from_dir, W_no_vcs>>
      [] OTHER -> FALSE

C2_FourCommandsInOrder ==
    (ValidInput /\ AllZero) =>
        /\ \A i \in 1..Len(cmds) : C2_Expected(i, cmds[i].argv)
        /\ \A i \in 1..Len(cmds) : cmds[i].argv[2] # W_index
        /\ status = "exited" => Len(cmds) = 4 /\ exitCode = 0 /\ exitStep = 0
        /\ status = "running" /\ Validated => Len(cmds) = pc - 2

C2_Witness ==
    /\ ValidInput /\ AllZero
    /\ Len(cmds) = 4
    /\ status = "exited" /\ exitCode = 0

(***************************************************************************)
(* C3: when the command of select_server, login or select_index exits with *)
(* code 1, it is the last command of the run, and the process has exited   *)
(* with code 1.                                                            *)
(***************************************************************************)
C3_CheckedFailureHalts ==
    \A i \in 1..Len(cmds) :
        (IsChecked(cmds[i]) /\ cmds[i].rc = 1) =>
            /\ i = Len(cmds)
            /\ status = "exited" /\ exitCode = 1
            /\ ~ENABLED Next

\* login fails after a successful select_server
C3_Witness ==
    /\ Len(cmds) = 2
    /\ cmds[1].rc = 0
    /\ IsLogin(cmds[2]) /\ cmds[2].rc = 1
    /\ status = "exited" /\ exitCode = 1

C5_EarlierCommandsReturnedZero ==
    \A i \in 1..Len(cmds) : \A j \in 1..(i - 1) : cmds[j].rc = 0

(***************************************************************************)
(* C6: an exit code other than 0 and 1 of select_server, login or          *)
(* select_index does not halt the run: right after it the process is still *)
(* running with the next step's command about to be issued, that step is   *)
(* never the one that exits, and a run none of whose commands exited with  *)
(* code 1 does not exit with code 1.                                       *)
(***************************************************************************)
C6_OtherCodesPassThrough ==
    /\ \A i \in 1..Len(cmds) :
          (IsChecked(cmds[i]) /\ cmds[i].rc \notin {0, 1}) =>
              /\ exitStep # i + 1
              /\ i = Len(cmds) =>
                    /\ status = "running" /\ pc = i + 2
                    /\ ENABLED Next
    /\ (cmds # <<>> /\ \A i \in 1..Len(cmds) : cmds[i].rc # 1) =>
          ~(status = "exited" /\ exitCode = 1)

\* select_server exited with 2 and login was issued all the same
C6_Witness ==
    /\ Len(cmds) >= 2
    /\ cmds[1].rc = 2
    /\ IsLogin(cmds[2])

(***************************************************************************)
(* C7: check_vargs returns normally exactly when server has a scheme and a *)
(* network location, index and username are non-empty and password is      *)
(* present and not null.  An empty password is accepted and goes into the  *)
(* login command; an empty index or username exits with code 1.            *)
(***************************************************************************)
C7_ReturnsIffValid ==
    Validated =>
        /\ ~Rejected <=> ValidInput
        /\ Rejected => exitCode = 1 /\ cmds = <<>>
        /\ (Present("index") /\ vargs["index"] = JStr(<<>>)) => Rejected
        /\ (Present("username") /\ vargs["username"] = JStr(<<>>)) => Rejected
        /\ (ValidInput /\ vargs["password"] = JStr(<<>>) /\ Len(cmds) >= 2) =>
              cmds[2].argv = <<W_devpi, W_login, W_clientdir, DEFAULT_CLIENTDIR,
                               vargs["username"].s, W_password, <<>> >>

\* login was issued with the empty password
C7_Witness ==
    /\ ValidInput
    /\ vargs["password"] = JStr(<<>>)
    /\ Len(cmds) >= 2
    /\ cmds[2].argv[7] = <<>>

(***************************************************************************)
(* C8: check_vargs prints exactly one message for an invalid input, the    *)
(* one of the first field, in the order server, index, username, password, *)
(* that fails its check; for a valid input it prints nothing.              *)
(***************************************************************************)
C8_FirstFailing ==
    CHOOSE i \in 1..Len(FieldOrder) :
        /\ ~FieldOK(FieldOrder[i])
        /\ \A j \in 1..(i - 1) : FieldOK(FieldOrder[j])

C8_FirstFailingFieldReported ==
    Validated =>
        IF ValidInput THEN printed = <<>>
        ELSE printed = <<FieldMsg(FieldOrder[C8_FirstFailing])>>

\* index and username both fail, and the index message is the one printed
C8_Witness ==
    /\ ServerWellFormed
    /\ ~NonEmptyStr("index") /\ ~NonEmptyStr("username") /\ ~PasswordGiven
    /\ printed = <<MsgIndex>>

(***************************************************************************)
(* What C9 and C10 speak of: the file arguments of the upload command.     *)
(***************************************************************************)
Files == Get(vargs, "files", JNull)

\* the patterns of files, a single str standing for the list holding it
PatternList == IF Files.t = "str" THEN <<Files.s>> ELSE Files.l

TrailingArgs == SubSeq(LastCmd.argv, 7, Len(LastCmd.argv))

\* pattern matches the file called name (a directory entry, so no '/')
PatternMatches(name, pattern) ==
    /\ fnmatch(name, pattern)
    /\ ishidden(name) => ishidden(pattern)

InWorkspace(name) == WorkspacePath \o <<"/">> \o name

Occurrences(x, seq) == Cardinality({i \in 1..Len(seq) : seq[i] = x})

(***************************************************************************)
(* C9: for a non-empty files, the arguments after --no-vcs are, pattern by *)
(* pattern in the order of files, the glob matches of the pattern joined   *)
(* with the workspace path, in the order glob lists them.  A file no       *)
(* pattern matches is left out, a file k patterns match is there k times,  *)
(* and a str gives what the list holding only that str gives.              *)
(***************************************************************************)
C9_ExpectedArgs ==
    Flatten([k \in 1..Len(PatternList) |->
                glob(path_join(WorkspacePath, PatternList[k]), listing)])

C9_TrailingArgsAreGlobMatches ==
    (UploadIssued /\ Truthy(Files)) =>
        /\ TrailingArgs = C9_ExpectedArgs
        /\ \A i \in 1..Len(listing) :
              Occurrences(InWorkspace(listing[i]), TrailingArgs)
                  = Cardinality({k \in 1..Len(PatternList) :
                                    PatternMatches(listing[i], PatternList[k])})
        /\ \A j \in 1..Len(TrailingArgs) :
              \E i \in 1..Len(listing) : TrailingArgs[j] = InWorkspace(listing[i])
        /\ Files.t = "str" =>
              TrailingArgs = expand_files(WorkspacePath, JList(<<Files.s>>), listing)

\* two overlapping patterns: one file is passed twice, another not at all
C9_Witness ==
    /\ UploadIssued /\ Truthy(Files)
    /\ Len(PatternList) = 2
    /\ \E i, j \in 1..Len(listing) :
          /\ Occurrences(InWorkspace(listing[i]), TrailingArgs) = 2
          /\ Occurrences(InWorkspace(listing[j]), TrailingArgs) = 0

(***************************************************************************)
(* C10: when files is None or empty, and also when files is non-empty but  *)
(* none of its patterns matches a file, the upload command is exactly      *)
(* devpi upload --clientdir <dir> --from-dir --no-vcs, run in the          *)
(* workspace path.                                                         *)
(***************************************************************************)
C10_NothingMatches ==
    \A k \in 1..Len(PatternList) : \A i \in 1..Len(listing) :
        ~PatternMatches(listing[i], PatternList[k])

C10_WholeDirectoryUpload ==
    (UploadIssued /\ (~Truthy(Files) \/ C10_NothingMatches)) =>
        /\ LastCmd.argv = <<W_devpi, W_upload, W_clientdir, DEFAULT_CLIENTDIR,
                            W_from_dir, W_no_vcs>>
        /\ LastCmd.cwd = WorkspacePath

\* a pattern is given, the workspace holds a file, and the pattern does not match it
C10_Witness ==
    /\ UploadIssued
    /\ Truthy(Files) /\ C10_NothingMatches
    /\ listing # <<>>
    /\ Len(LastCmd.argv) = 6

====
